---- MODULE Spec2Model ----
(***************************************************************************)
(* Dots & Boxes (game.js): the game state, the canvas event handlers       *)
(* (click, mousemove, resize), resetGame and endGame, as a state machine.  *)
(* Edge keys "r1,c1:r2,c2" are modelled as the tuple <<r1,c1,r2,c2>> and   *)
(* box keys "r,c" as <<r,c>>: formatting integers with these separators is *)
(* injective, so string equality is tuple equality.                        *)
(***************************************************************************)
EXTENDS Integers, FiniteSets, Sequences, TLC

\* ---------------------------------------------------------------- bounds
\* rows + cols of the grids explored is at most MaxGridSum (rows, cols >= 2)
MaxGridSum == 5
\* largest single score drawn as an input of endGame in SpecEndGame
MaxScore == 2

\* ------------------------------------------------------ program constants
cellSize == 90
gridPaddingTop == 30
margin == 20
\* hit-test threshold of findNearestEdge: |distance to grid line| < 15
nearThreshold == 15
\* config.colors.players has 5 entries: "score tracking for up to 5 players"
MaxPlayers == 5
MinPlayers == 2
\* state.players = ['A', 'B']
ShippedPlayers == 2

PlayerNames == <<"A", "B", "C", "D", "E">>

VARIABLES
    config,          \* [rows, cols]
    players,         \* state.players: sequence of names (index i is players[i+1])
    currentPlayer,   \* state.currentPlayer, 0-based
    scores,          \* state.scores: [0..n-1 -> Nat]
    edges,           \* state.edges: set of edge keys
    boxes,           \* state.boxes: function box key -> owner index
    highlightedEdge, \* state.highlightedEdge: edge record or null
    gameOver,        \* state.gameOver
    canvasSize,      \* state.canvasSize
    boardOffset,     \* state.boardOffset
    rendered,        \* what the last drawBoard painted
    ui,              \* what the last updateUI wrote to the score widgets
    winnerText,      \* textContent of #winner-text
    modal,           \* style.display of #game-over
    lastOp           \* history: the last click or reset, and its outcome

vars == <<config, players, currentPlayer, scores, edges, boxes, highlightedEdge,
          gameOver, canvasSize, boardOffset, rendered, ui, winnerText, modal, lastOp>>

\* the five fields the spec calls the game session
session == <<edges, boxes, scores, currentPlayer, gameOver>>

\* ---------------------------------------------------------------- helpers
null == [r1 |-> -1, c1 |-> -1, r2 |-> -1, c2 |-> -1, isHorizontal |-> FALSE]

\* new Map()
EmptyMap == [b \in {} |-> 0]

\* history record: handler, outcome, number of boxes the move completed
Op(op, outcome, completed) == [op |-> op, outcome |-> outcome, completed |-> completed]

Abs(a) == IF a < 0 THEN 0 - a ELSE a

\* Math.round(a / d) for integers a and d > 0: floor(a/d + 1/2)
Round(a, d) == (2 * a + d) \div (2 * d)

\* `${edge.r1},${edge.c1}:${edge.r2},${edge.c2}`
EdgeKey(r1, c1, r2, c2) == <<r1, c1, r2, c2>>

KeyOf(edge) == EdgeKey(edge.r1, edge.c1, edge.r2, edge.c2)

\* `${box.r},${box.c}`
BoxKey(box) == <<box.r, box.c>>

NumPlayers == Len(players)

PlayerIdx == 0 .. (NumPlayers - 1)

\* the membership test never finds the key
EdgesHasNever(es, edgeKey) == FALSE

\* state.edges.has(edgeKey)
EdgesHas(es, edgeKey) == edgeKey \in es

\* the turn alternates between the first two players whatever the player count
NextPlayerOfTwo(cp, n) == (cp + 1) % 2

\* (state.currentPlayer + 1) % state.players.length
NextPlayer(cp, n) == (cp + 1) % n

\* setupCanvas
SetupCanvas(cfg) ==
    [canvasSize  |-> [width  |-> cfg.cols * cellSize + margin * 2,
                      height |-> cfg.rows * cellSize + margin * 2 + gridPaddingTop],
     boardOffset |-> [x |-> margin, y |-> margin + gridPaddingTop]]

\* the horizontal test lets gridX run to the last dot column (cols, not cols - 1)
FindNearestEdgeWide(x, y, off, cfg) ==
    LET gridX == Round(x - off.x, cellSize)
        gridY == Round(y - off.y, cellSize)
    IN  IF /\ Abs(y - (off.y + gridY * cellSize)) < nearThreshold
           /\ gridX >= 0 /\ gridX < cfg.cols
           /\ gridY >= 0 /\ gridY < cfg.rows
        THEN [r1 |-> gridY, c1 |-> gridX, r2 |-> gridY, c2 |-> gridX + 1,
              isHorizontal |-> TRUE]
        ELSE IF /\ Abs(x - (off.x + gridX * cellSize)) < nearThreshold
                /\ gridY >= 0 /\ gridY < cfg.rows - 1
                /\ gridX >= 0 /\ gridX < cfg.cols
        THEN [r1 |-> gridY, c1 |-> gridX, r2 |-> gridY + 1, c2 |-> gridX,
              isHorizontal |-> FALSE]
        ELSE null

\* findNearestEdge(x, y)
FindNearestEdge(x, y, off, cfg) ==
    LET gridX == Round(x - off.x, cellSize)
        gridY == Round(y - off.y, cellSize)
    IN  IF /\ Abs(y - (off.y + gridY * cellSize)) < nearThreshold
           /\ gridX >= 0 /\ gridX < cfg.cols - 1
           /\ gridY >= 0 /\ gridY < cfg.rows
        THEN [r1 |-> gridY, c1 |-> gridX, r2 |-> gridY, c2 |-> gridX + 1,
              isHorizontal |-> TRUE]
        ELSE IF /\ Abs(x - (off.x + gridX * cellSize)) < nearThreshold
                /\ gridY >= 0 /\ gridY < cfg.rows - 1
                /\ gridX >= 0 /\ gridX < cfg.cols
        THEN [r1 |-> gridY, c1 |-> gridX, r2 |-> gridY + 1, c2 |-> gridX,
              isHorizontal |-> FALSE]
        ELSE null

\* the box above counts as closed without a look at its left edge
BoxAboveNoLeft(edge, es) ==
    IF /\ edge.r1 > 0
       /\ EdgesHas(es, EdgeKey(edge.r1 - 1, edge.c1, edge.r1 - 1, edge.c2))
       /\ EdgesHas(es, EdgeKey(edge.r1 - 1, edge.c2, edge.r1, edge.c2))
    THEN <<[r |-> edge.r1 - 1, c |-> edge.c1]>> ELSE <<>>

\* checkForCompletedBoxes, horizontal edge: "Check box above the horizontal line"
BoxAbove(edge, es) ==
    IF /\ edge.r1 > 0
       /\ EdgesHas(es, EdgeKey(edge.r1 - 1, edge.c1, edge.r1 - 1, edge.c2))
       /\ EdgesHas(es, EdgeKey(edge.r1 - 1, edge.c1, edge.r1, edge.c1))
       /\ EdgesHas(es, EdgeKey(edge.r1 - 1, edge.c2, edge.r1, edge.c2))
    THEN <<[r |-> edge.r1 - 1, c |-> edge.c1]>> ELSE <<>>

\* checkForCompletedBoxes, horizontal edge: "Check box below the horizontal line"
BoxBelow(edge, es, cfg) ==
    IF /\ edge.r1 < cfg.rows - 1
       /\ EdgesHas(es, EdgeKey(edge.r1 + 1, edge.c1, edge.r1 + 1, edge.c2))
       /\ EdgesHas(es, EdgeKey(edge.r1, edge.c1, edge.r1 + 1, edge.c1))
       /\ EdgesHas(es, EdgeKey(edge.r1, edge.c2, edge.r1 + 1, edge.c2))
    THEN <<[r |-> edge.r1, c |-> edge.c1]>> ELSE <<>>

\* checkForCompletedBoxes, vertical edge: "Check box to the left of the vertical line"
BoxLeft(edge, es) ==
    IF /\ edge.c1 > 0
       /\ EdgesHas(es, EdgeKey(edge.r1, edge.c1 - 1, edge.r2, edge.c1 - 1))
       /\ EdgesHas(es, EdgeKey(edge.r1, edge.c1 - 1, edge.r1, edge.c1))
       /\ EdgesHas(es, EdgeKey(edge.r2, edge.c1 - 1, edge.r2, edge.c1))
    THEN <<[r |-> edge.r1, c |-> edge.c1 - 1]>> ELSE <<>>

\* a box counts as closed without a look at its top edge
BoxRightNoTop(edge, es, cfg) ==
    IF /\ edge.c1 < cfg.cols - 1
       /\ EdgesHas(es, EdgeKey(edge.r1, edge.c1 + 1, edge.r2, edge.c1 + 1))
       /\ EdgesHas(es, EdgeKey(edge.r2, edge.c1, edge.r2, edge.c1 + 1))
    THEN <<[r |-> edge.r1, c |-> edge.c1]>> ELSE <<>>

\* checkForCompletedBoxes, vertical edge: "Check box to the right of the vertical line"
BoxRight(edge, es, cfg) ==
    IF /\ edge.c1 < cfg.cols - 1
       /\ EdgesHas(es, EdgeKey(edge.r1, edge.c1 + 1, edge.r2, edge.c1 + 1))
       /\ EdgesHas(es, EdgeKey(edge.r1, edge.c1, edge.r1, edge.c1 + 1))
       /\ EdgesHas(es, EdgeKey(edge.r2, edge.c1, edge.r2, edge.c1 + 1))
    THEN <<[r |-> edge.r1, c |-> edge.c1]>> ELSE <<>>

\* the box below is pushed before the box above, the right one before the left
CheckForCompletedBoxesSwapped(edge, es, cfg) ==
    IF edge.isHorizontal
    THEN BoxBelow(edge, es, cfg) \o BoxAbove(edge, es)
    ELSE BoxRight(edge, es, cfg) \o BoxLeft(edge, es)

\* checkForCompletedBoxes(edge), reading the edge set es (the new edge included)
CheckForCompletedBoxes(edge, es, cfg) ==
    IF edge.isHorizontal
    THEN BoxAbove(edge, es) \o BoxBelow(edge, es, cfg)
    ELSE BoxLeft(edge, es) \o BoxRight(edge, es, cfg)

\* the second product repeats the first: rows * (cols - 1) is lost
TotalPossibleEdgesRepeated(cfg) == (cfg.rows - 1) * cfg.cols + (cfg.rows - 1) * cfg.cols

\* one edge more than the board has: the full board is never recognised
TotalPossibleEdgesOneMore(cfg) == (cfg.rows - 1) * cfg.cols + cfg.rows * (cfg.cols - 1) + 1

\* isGameOver
TotalPossibleEdges(cfg) == (cfg.rows - 1) * cfg.cols + cfg.rows * (cfg.cols - 1)

\* the comparison is strict: the full board is not recognised
IsGameOverStrict(es, cfg) == Cardinality(es) > TotalPossibleEdges(cfg)

\* the game is declared over one edge short of the full board
IsGameOverEarly(es, cfg) == Cardinality(es) >= TotalPossibleEdges(cfg) - 1

IsGameOver(es, cfg) == Cardinality(es) >= TotalPossibleEdges(cfg)

\* the box is recorded for the player after the mover
RECURSIVE AwardBoxesToNext(_, _, _, _)
AwardBoxesToNext(list, bx, sc, p) ==
    IF list = <<>> THEN [boxes |-> bx, scores |-> sc]
    ELSE LET k == BoxKey(Head(list))
             q == (p + 1) % Cardinality(DOMAIN sc)
         IN  AwardBoxesToNext(Tail(list),
                        [b \in (DOMAIN bx) \cup {k} |-> IF b = k THEN q ELSE bx[b]],
                        [sc EXCEPT ![p] = @ + 1],
                        p)

\* every box already on the map is handed to the mover along with the new ones
AwardBoxesTakesAll(list, bx, sc, p) ==
    [boxes  |-> [b \in (DOMAIN bx) \cup {BoxKey(list[i]) : i \in DOMAIN list} |-> p],
     scores |-> [sc EXCEPT ![p] = @ + Len(list)]]

\* the score goes up once per move, not once per completed box
AwardBoxesOncePerMove(list, bx, sc, p) ==
    [boxes  |-> [b \in (DOMAIN bx) \cup {BoxKey(list[i]) : i \in DOMAIN list} |->
                    IF b \in DOMAIN bx THEN bx[b] ELSE p],
     scores |-> IF list = <<>> THEN sc ELSE [sc EXCEPT ![p] = @ + 1]]

\* completedBoxes.forEach(box => { boxes.set(key, currentPlayer); scores[currentPlayer]++ })
RECURSIVE AwardBoxes(_, _, _, _)
AwardBoxes(list, bx, sc, p) ==
    IF list = <<>> THEN [boxes |-> bx, scores |-> sc]
    ELSE LET k == BoxKey(Head(list))
         IN  AwardBoxes(Tail(list),
                        [b \in (DOMAIN bx) \cup {k} |-> IF b = k THEN p ELSE bx[b]],
                        [sc EXCEPT ![p] = @ + 1],
                        p)

\* the comparison is >=: a later player with the same score takes the lead
RECURSIVE FindWinnerLastLeader(_, _, _, _)
FindWinnerLastLeader(i, n, sc, acc) ==
    IF i >= n THEN acc
    ELSE FindWinnerLastLeader(i + 1, n, sc,
            IF sc[i] >= acc.maxScore
            THEN [maxScore |-> sc[i], winner |-> i, isTie |-> FALSE]
            ELSE acc)

\* isTie is not cleared when a later player takes the lead
RECURSIVE FindWinnerStickyTie(_, _, _, _)
FindWinnerStickyTie(i, n, sc, acc) ==
    IF i >= n THEN acc
    ELSE FindWinnerStickyTie(i + 1, n, sc,
            IF sc[i] > acc.maxScore
            THEN [maxScore |-> sc[i], winner |-> i, isTie |-> acc.isTie]
            ELSE IF sc[i] = acc.maxScore
            THEN [acc EXCEPT !.isTie = TRUE]
            ELSE acc)

\* the loop of endGame over players 0..n-1, from player i with the locals in acc
RECURSIVE FindWinner(_, _, _, _)
FindWinner(i, n, sc, acc) ==
    IF i >= n THEN acc
    ELSE FindWinner(i + 1, n, sc,
            IF sc[i] > acc.maxScore
            THEN [maxScore |-> sc[i], winner |-> i, isTie |-> FALSE]
            ELSE IF sc[i] = acc.maxScore
            THEN [acc EXCEPT !.isTie = TRUE]
            ELSE acc)

\* endGame: the locals maxScore, winner, isTie after the loop
EndGameResult(sc, n) ==
    FindWinner(0, n, sc, [maxScore |-> -1, winner |-> -1, isTie |-> FALSE])

\* the text names the first leader even when the lead is shared
WinnerTextAlwaysNames(res, pl) ==
    <<"Player", pl[res.winner + 1], "wins with", res.maxScore, "points!">>

\* endGame: the text written to #winner-text
WinnerText(res, pl) ==
    IF res.isTie THEN <<"It's a tie!">>
    ELSE <<"Player", pl[res.winner + 1], "wins with", res.maxScore, "points!">>

\* drawBoard: the picture is a function of these fields
DrawBoard(es, bx, hl, cp) ==
    [edges |-> es, boxes |-> bx, highlightedEdge |-> hl, currentPlayer |-> cp]

\* updateUI
UpdateUI(sc, cp, over) ==
    [scores |-> sc, currentPlayer |-> cp, active |-> IF over THEN -1 ELSE cp]

\* ------------------------------------------------------------ input sets
Configs ==
    {[rows |-> r, cols |-> c] :
        r \in 2 .. MaxGridSum, c \in 2 .. MaxGridSum}

GridConfigs == {cfg \in Configs : cfg.rows + cfg.cols <= MaxGridSum}

\* pointer events are sampled 14 px before every grid line k (near: inside the
\* 15 px hit band), the first line past the grid included, and 15 px after every
\* grid line (far: just outside the band), clipped to the canvas
NearOffset == -14

FarOffset == 15

PointerXs == {x \in {boardOffset.x + k * cellSize + NearOffset : k \in 0 .. config.cols}
                    \cup {boardOffset.x + k * cellSize + FarOffset :
                              k \in 0 .. (config.cols - 1)} :
                 x >= 0 /\ x < canvasSize.width}

PointerYs == {y \in {boardOffset.y + k * cellSize + NearOffset : k \in 0 .. config.rows}
                    \cup {boardOffset.y + k * cellSize + FarOffset :
                              k \in 0 .. (config.rows - 1)} :
                 y >= 0 /\ y < canvasSize.height}

\* ------------------------------------------------------------------ Init
\* the state after DOMContentLoaded -> initGame
InitFor(cfg, n) ==
    /\ config = cfg
    /\ players = SubSeq(PlayerNames, 1, n)
    /\ currentPlayer = 0
    /\ scores = [i \in 0 .. (n - 1) |-> 0]
    /\ edges = {}
    /\ boxes = EmptyMap
    /\ highlightedEdge = null
    /\ gameOver = FALSE
    /\ canvasSize = SetupCanvas(cfg).canvasSize
    /\ boardOffset = SetupCanvas(cfg).boardOffset
    /\ rendered = DrawBoard({}, EmptyMap, null, 0)
    /\ ui = UpdateUI([i \in 0 .. (n - 1) |-> 0], 0, FALSE)
    /\ winnerText = <<>>
    /\ modal = "none"
    /\ lastOp = Op("initGame", "", 0)

\* the shipped game: state.players = ['A', 'B']
Init == \E cfg \in GridConfigs : InitFor(cfg, ShippedPlayers)

\* "Add more players by updating the players array": 2 to 5 players
\* (on the grids at least as wide as tall; Spec covers the others)
InitPlayers ==
    \E cfg \in GridConfigs, n \in MinPlayers .. MaxPlayers :
        cfg.rows <= cfg.cols /\ InitFor(cfg, n)

\* ---------------------------------------------------------------- actions
\* endGame(), called with the scores sc already updated
EndGame(sc) ==
    /\ gameOver' = TRUE
    /\ winnerText' = WinnerText(EndGameResult(sc, NumPlayers), players)
    /\ modal' = "flex"

\* handleCanvasClick(event), event at canvas pixel (x, y)
HandleCanvasClick(x, y) ==
    LET edge == FindNearestEdge(x, y, boardOffset, config)
        edgeKey == KeyOf(edge)
        es == edges \cup {edgeKey}
        completedBoxes == CheckForCompletedBoxes(edge, es, config)
        awarded == AwardBoxes(completedBoxes, boxes, scores, currentPlayer)
    IN  IF gameOver
        THEN /\ lastOp' = Op("click", "gameOver", 0)
             /\ UNCHANGED <<config, players, currentPlayer, scores, edges, boxes,
                            highlightedEdge, gameOver, canvasSize, boardOffset,
                            rendered, ui, winnerText, modal>>
        ELSE IF edge = null
        THEN /\ lastOp' = Op("click", "noEdge", 0)
             /\ UNCHANGED <<config, players, currentPlayer, scores, edges, boxes,
                            highlightedEdge, gameOver, canvasSize, boardOffset,
                            rendered, ui, winnerText, modal>>
        ELSE IF EdgesHas(edges, edgeKey)
        THEN /\ lastOp' = Op("click", "alreadyDrawn", 0)
             /\ UNCHANGED <<config, players, currentPlayer, scores, edges, boxes,
                            highlightedEdge, gameOver, canvasSize, boardOffset,
                            rendered, ui, winnerText, modal>>
        ELSE /\ edges' = es
             /\ lastOp' = Op("click", "accepted", Len(completedBoxes))
             /\ UNCHANGED <<config, players, highlightedEdge, canvasSize, boardOffset>>
             /\ IF Len(completedBoxes) = 0
                THEN /\ currentPlayer' = NextPlayer(currentPlayer, NumPlayers)
                     /\ rendered' = DrawBoard(es, boxes, highlightedEdge, currentPlayer')
                     /\ ui' = UpdateUI(scores, currentPlayer', gameOver)
                     /\ UNCHANGED <<scores, boxes, gameOver, winnerText, modal>>
                ELSE /\ boxes' = awarded.boxes
                     /\ scores' = awarded.scores
                     /\ UNCHANGED currentPlayer
                     /\ IF IsGameOver(es, config)
                        THEN /\ EndGame(awarded.scores)
                             /\ UNCHANGED <<rendered, ui>>
                        ELSE /\ rendered' = DrawBoard(es, awarded.boxes, highlightedEdge,
                                                      currentPlayer)
                             /\ ui' = UpdateUI(awarded.scores, currentPlayer, gameOver)
                             /\ UNCHANGED <<gameOver, winnerText, modal>>

\* handleMouseMove(event), event at canvas pixel (x, y)
HandleMouseMove(x, y) ==
    LET edge == FindNearestEdge(x, y, boardOffset, config)
    IN  IF gameOver
        THEN UNCHANGED vars
        ELSE /\ highlightedEdge' =
                    IF edge # null /\ ~EdgesHas(edges, KeyOf(edge)) THEN edge ELSE null
             /\ rendered' = DrawBoard(edges, boxes, highlightedEdge', currentPlayer)
             /\ UNCHANGED <<config, players, currentPlayer, scores, edges, boxes,
                            gameOver, canvasSize, boardOffset, ui, winnerText, modal,
                            lastOp>>

\* the resize listener also zeroes the scores
ResizeResets ==
    /\ canvasSize' = SetupCanvas(config).canvasSize
    /\ boardOffset' = SetupCanvas(config).boardOffset
    /\ scores' = [i \in PlayerIdx |-> 0]
    /\ rendered' = DrawBoard(edges, boxes, highlightedEdge, currentPlayer)
    /\ UNCHANGED <<config, players, currentPlayer, edges, boxes,
                   highlightedEdge, gameOver, ui, winnerText, modal, lastOp>>

\* window 'resize' listener: setupCanvas(); drawBoard()
Resize ==
    /\ canvasSize' = SetupCanvas(config).canvasSize
    /\ boardOffset' = SetupCanvas(config).boardOffset
    /\ rendered' = DrawBoard(edges, boxes, highlightedEdge, currentPlayer)
    /\ UNCHANGED <<config, players, currentPlayer, scores, edges, boxes,
                   highlightedEdge, gameOver, ui, winnerText, modal, lastOp>>

\* resetGame without `state.gameOver = false`
ResetGameKeepsOver(trigger) ==
    /\ edges' = {}
    /\ boxes' = EmptyMap
    /\ currentPlayer' = 0
    /\ UNCHANGED gameOver
    /\ highlightedEdge' = null
    /\ scores' = [i \in PlayerIdx |-> 0]
    /\ modal' = "none"
    /\ rendered' = DrawBoard({}, EmptyMap, null, 0)
    /\ ui' = UpdateUI([i \in PlayerIdx |-> 0], 0, gameOver)
    /\ lastOp' = Op("resetGame", trigger, 0)
    /\ UNCHANGED <<config, players, canvasSize, boardOffset, winnerText>>

\* resetGame without the loop that zeroes the scores
ResetGameKeepsScores(trigger) ==
    /\ edges' = {}
    /\ boxes' = EmptyMap
    /\ currentPlayer' = 0
    /\ gameOver' = FALSE
    /\ highlightedEdge' = null
    /\ UNCHANGED scores
    /\ modal' = "none"
    /\ rendered' = DrawBoard({}, EmptyMap, null, 0)
    /\ ui' = UpdateUI(scores, 0, FALSE)
    /\ lastOp' = Op("resetGame", trigger, 0)
    /\ UNCHANGED <<config, players, canvasSize, boardOffset, winnerText>>

\* resetGame(), reached from the listener named trigger
ResetGame(trigger) ==
    /\ edges' = {}
    /\ boxes' = EmptyMap
    /\ currentPlayer' = 0
    /\ gameOver' = FALSE
    /\ highlightedEdge' = null
    /\ scores' = [i \in PlayerIdx |-> 0]
    /\ modal' = "none"
    /\ rendered' = DrawBoard({}, EmptyMap, null, 0)
    /\ ui' = UpdateUI([i \in PlayerIdx |-> 0], 0, FALSE)
    /\ lastOp' = Op("resetGame", trigger, 0)
    /\ UNCHANGED <<config, players, canvasSize, boardOffset, winnerText>>

\* #restart-btn 'click' listener
RestartButton == ResetGame("restart-btn")

\* #play-again 'click' listener; the button sits in the game-over modal
PlayAgainButton == modal = "flex" /\ ResetGame("play-again")

\* document 'keydown' listener
KeyDown(key) ==
    IF key = "r" \/ key = "R"
    THEN ResetGame("keydown")
    ELSE UNCHANGED vars

Keys == {"r", "R", "x"}

Click == \E x \in PointerXs, y \in PointerYs : HandleCanvasClick(x, y)

MouseMove == \E x \in PointerXs, y \in PointerYs : HandleMouseMove(x, y)

Key == \E key \in Keys : KeyDown(key)

Next ==
    \/ Click
    \/ MouseMove
    \/ Resize
    \/ RestartButton
    \/ PlayAgainButton
    \/ Key

Spec == Init /\ [][Next]_vars

\* endGame as a function of the scores: every score vector with entries up to
\* MaxScore, for 2 to 5 players, then one call of endGame
InitEndGame ==
    \E cfg \in GridConfigs, n \in MinPlayers .. MaxPlayers :
        \E sc \in [0 .. (n - 1) -> 0 .. MaxScore] :
            /\ config = cfg
            /\ players = SubSeq(PlayerNames, 1, n)
            /\ currentPlayer = 0
            /\ scores = sc
            /\ edges = {}
            /\ boxes = EmptyMap
            /\ highlightedEdge = null
            /\ gameOver = FALSE
            /\ canvasSize = SetupCanvas(cfg).canvasSize
            /\ boardOffset = SetupCanvas(cfg).boardOffset
            /\ rendered = DrawBoard({}, EmptyMap, null, 0)
            /\ ui = UpdateUI(sc, 0, FALSE)
            /\ winnerText = <<>>
            /\ modal = "none"
            /\ lastOp = Op("initGame", "", 0)

EndGameCall ==
    /\ ~gameOver
    /\ EndGame(scores)
    /\ lastOp' = Op("endGame", "", 0)
    /\ UNCHANGED <<config, players, currentPlayer, scores, edges, boxes,
                   highlightedEdge, canvasSize, boardOffset, rendered, ui>>

SpecEndGame == InitEndGame /\ [][EndGameCall]_vars

SpecPlayers == InitPlayers /\ [][Next]_vars

\* initGame reads config and state.players as they are edited in game.js, with
\* no test of their values: grids from 1 x 1 and a players array of 1 or 2
AnyConfigs ==
    {[rows |-> r, cols |-> c] : r \in 1 .. MaxGridSum, c \in 1 .. MaxGridSum}

InitAnyConfig ==
    \E cfg \in AnyConfigs, n \in 1 .. ShippedPlayers :
        cfg.rows + cfg.cols < MaxGridSum /\ InitFor(cfg, n)

SpecAnyConfig == InitAnyConfig /\ [][Next]_vars

\* a 'click' event at (x, y), a pixel beside grid edge k, that draws k
DrawEdge(k, x, y) ==
    /\ k \notin edges
    /\ edges' = edges \cup {k}
    /\ HandleCanvasClick(x, y)

\* a click beside an edge not yet drawn: NearOffset off its line, FarOffset
\* along it from its first dot
FreeEdgeClick ==
    \E r \in 0 .. (config.rows - 1), c \in 0 .. (config.cols - 1) :
        \/ /\ c + 1 < config.cols
           /\ DrawEdge(EdgeKey(r, c, r, c + 1),
                       boardOffset.x + c * cellSize + FarOffset,
                       boardOffset.y + r * cellSize + NearOffset)
        \/ /\ r + 1 < config.rows
           /\ DrawEdge(EdgeKey(r, c, r + 1, c),
                       boardOffset.x + c * cellSize + NearOffset,
                       boardOffset.y + r * cellSize + FarOffset)

\* no click can draw a further edge: handleCanvasClick returns at once, or
\* every edge of the grid is in state.edges
NoFreeEdge ==
    \/ gameOver
    \/ \A r \in 0 .. (config.rows - 1), c \in 0 .. (config.cols - 1) :
           /\ c + 1 < config.cols => EdgesHas(edges, EdgeKey(r, c, r, c + 1))
           /\ r + 1 < config.rows => EdgesHas(edges, EdgeKey(r, c, r + 1, c))

\* the players keep playing: as long as an undrawn edge is left, one is clicked.
\* This is WF_vars(FreeEdgeClick) with ENABLED <<FreeEdgeClick>>_vars written as
\* the state predicate ~NoFreeEdge
KeepPlaying == ([]<>NoFreeEdge) \/ ([]<><<FreeEdgeClick>>_vars)

SpecFair == Init /\ [][Next]_vars /\ KeepPlaying

\* ============================================================== properties
\* vocabulary of the claims, stated on the grid and not on the code's tests
Cells == {<<r, c>> : r \in 0 .. (config.rows - 2), c \in 0 .. (config.cols - 2)}

\* the 4 bounding edges of cell <<r, c>>: top, bottom, left, right
CellEdges(cell) ==
    LET r == cell[1]
        c == cell[2]
    IN  {<<r, c, r, c + 1>>, <<r + 1, c, r + 1, c + 1>>,
         <<r, c, r + 1, c>>, <<r, c + 1, r + 1, c + 1>>}

Complete(cell, es) == CellEdges(cell) \subseteq es

\* (M-1)*N + M*(N-1)
TotalLegalEdges == (config.rows - 1) * config.cols + config.rows * (config.cols - 1)

\* this step is an accepted move: exactly one new edge is drawn
AcceptedMove == edges \subseteq edges' /\ Cardinality(edges') = Cardinality(edges) + 1

\* the cells the step completes
CompletedByStep == {cell \in Cells : Complete(cell, edges') /\ ~Complete(cell, edges)}

\* this step is a click at (x, y) that resolves to an edge already drawn
ClickOnDrawnEdge(x, y) ==
    /\ ~gameOver
    /\ FindNearestEdge(x, y, boardOffset, config) # null
    /\ KeyOf(FindNearestEdge(x, y, boardOffset, config)) \in edges
    /\ HandleCanvasClick(x, y)

\* this step is a click at (x, y) that resolves to an edge not yet drawn
ClickOnFreeEdge(x, y) ==
    /\ FindNearestEdge(x, y, boardOffset, config) # null
    /\ KeyOf(FindNearestEdge(x, y, boardOffset, config)) \notin edges
    /\ HandleCanvasClick(x, y)

\* the session of a freshly initialised game
FreshSession == <<{}, EmptyMap, [i \in PlayerIdx |-> 0], 0, FALSE>>

\* C1: in every reachable state a cell is a key of state.boxes if and only if
\* all 4 of its bounding edges are in state.edges (and every key is a cell)
C1_OwnedIffComplete ==
    /\ DOMAIN boxes \subseteq Cells
    /\ \A cell \in Cells : cell \in DOMAIN boxes <=> Complete(cell, edges)

\* C1 witness: a two-cell grid after a move that completed one cell while the
\* other cell is still open
C1_Witness ==
    /\ Cardinality(Cells) = 2
    /\ Cardinality(DOMAIN boxes) = 1
    /\ lastOp = Op("click", "accepted", 1)
    /\ \E cell \in Cells : ~Complete(cell, edges)

\* C2: an accepted move that completes k cells (k is 1 or 2) records each of them
\* as owned by the player who was current before the move, raises that player's
\* score by exactly k and leaves every other score and every earlier owner alone
C2_CompletionAwardsMover ==
    [][(AcceptedMove /\ CompletedByStep # {}) =>
         /\ Cardinality(CompletedByStep) \in {1, 2}
         /\ \A cell \in CompletedByStep :
                cell \in DOMAIN boxes' /\ boxes'[cell] = currentPlayer
         /\ scores'[currentPlayer] = scores[currentPlayer] + Cardinality(CompletedByStep)
         /\ \A q \in PlayerIdx \ {currentPlayer} : scores'[q] = scores[q]
         /\ \A b \in DOMAIN boxes : b \in DOMAIN boxes' /\ boxes'[b] = boxes[b]
      ]_vars

\* C2 witness: one move has just completed 2 cells at once, both recorded for
\* the mover, whose score went from 0 to 2
C2_Witness ==
    /\ lastOp = Op("click", "accepted", 2)
    /\ Cardinality(DOMAIN boxes) = 2
    /\ \A b \in DOMAIN boxes : boxes[b] = currentPlayer
    /\ scores[currentPlayer] = 2

\* C3: an accepted move that completes 0 cells passes the turn to
\* (currentPlayer + 1) mod playerCount; one that completes at least 1 cell leaves
\* currentPlayer unchanged
C3_TurnAdvance ==
    [][AcceptedMove =>
         IF CompletedByStep = {}
         THEN currentPlayer' = (currentPlayer + 1) % NumPlayers
         ELSE currentPlayer' = currentPlayer
      ]_vars

\* C3 witness: with 5 players, the 5th move in a row that completed no cell has
\* wrapped the turn back to player 0
C3_Witness ==
    /\ NumPlayers = 5
    /\ Cardinality(edges) = 5
    /\ DOMAIN boxes = {}
    /\ currentPlayer = 0
    /\ lastOp = Op("click", "accepted", 0)

\* C4: gameOver is true if and only if the number of drawn edges equals
\* totalLegalEdges = (M-1)*N + M*(N-1)
C4_GameOverIffAllEdges == gameOver <=> Cardinality(edges) = TotalLegalEdges

\* C4 witness: the move that drew the last legal edge has just ended the game
C4_Witness ==
    /\ gameOver
    /\ Cardinality(edges) = TotalLegalEdges
    /\ lastOp.op = "click" /\ lastOp.outcome = "accepted"

\* the largest score, and the players who hold it
TopScore == CHOOSE m \in {scores[p] : p \in PlayerIdx} : \A p \in PlayerIdx : scores[p] <= m

TopPlayers == {p \in PlayerIdx : scores[p] = TopScore}

\* the players and the score that the text of #winner-text names
NamedPlayers(text) ==
    IF Len(text) = 5 THEN {p \in PlayerIdx : players[p + 1] = text[2]} ELSE {}

NamedScores(text) == IF Len(text) = 5 THEN {text[4]} ELSE {}

RECURSIVE SumScores(_)
SumScores(ps) ==
    IF ps = {} THEN 0
    ELSE LET p == CHOOSE q \in ps : TRUE IN scores[p] + SumScores(ps \ {p})

\* C5: at end of game an outright winner is reported exactly when one player
\* alone holds the maximum score, and it is that player with that score; a tie is
\* reported exactly when two or more players share the maximum
C5_WinnerIffUniqueMax ==
    gameOver =>
        /\ Len(winnerText) = 5 <=> Cardinality(TopPlayers) = 1
        /\ Len(winnerText) = 1 <=> Cardinality(TopPlayers) >= 2
        /\ Len(winnerText) = 5 =>
              /\ winnerText[1] = "Player" /\ winnerText[3] = "wins with"
              /\ NamedPlayers(winnerText) = TopPlayers
              /\ NamedScores(winnerText) = {TopScore}
        /\ Len(winnerText) = 1 => winnerText[1] = "It's a tie!"

\* C5 witness: 5 players, the maximum shared by two players who are not
\* neighbours in the list and are not first, reported as a tie
C5_Witness ==
    /\ gameOver
    /\ NumPlayers = 5
    /\ TopPlayers = {1, 4}
    /\ winnerText = <<"It's a tie!">>

\* C6 as stated: when more than one player holds the maximum, the result keeps
\* the set of tied players and the tied score
C6_TieKeepsPlayers ==
    (gameOver /\ Cardinality(TopPlayers) > 1) =>
        /\ NamedPlayers(winnerText) = TopPlayers
        /\ NamedScores(winnerText) = {TopScore}

\* C6 amended: when more than one player holds the maximum, the result is the
\* generic tie message only: it names no player and no score
C6_TieIsGeneric ==
    (gameOver /\ Cardinality(TopPlayers) > 1) =>
        /\ NamedPlayers(winnerText) = {}
        /\ NamedScores(winnerText) = {}
        /\ modal = "flex"

\* C6 witness: 3 players, the first and the last share the maximum
C6_Witness ==
    /\ gameOver
    /\ NumPlayers = 3
    /\ TopPlayers = {0, 2}
    /\ modal = "flex"

\* C7: a click that resolves to an edge already drawn changes neither the drawn
\* edges (nor their number), the cell owners, the scores, currentPlayer nor gameOver
C7_RedrawIsNoOp ==
    [][\/ UNCHANGED session /\ Cardinality(edges') = Cardinality(edges)
       \/ ~(\E x \in PointerXs, y \in PointerYs : ClickOnDrawnEdge(x, y))
      ]_vars

\* C7 witness: a click on a drawn edge has just been refused
C7_Witness ==
    /\ lastOp = Op("click", "alreadyDrawn", 0)
    /\ edges # {}
    /\ ~gameOver

\* C8: once gameOver is set every click leaves the session unchanged, the only
\* step that changes the session is resetGame, and after resetGame a click on a
\* free edge is accepted again
C8_GameOverBlocksMoves ==
    [][/\ gameOver => (UNCHANGED session \/ ~Click)
       /\ gameOver => (UNCHANGED session \/ session' = FreshSession)
       /\ lastOp.op = "resetGame" =>
             (AcceptedMove \/
              ~(\E x \in PointerXs, y \in PointerYs : ClickOnFreeEdge(x, y)))
      ]_vars

\* C8 witness: a click has just been refused because the game is over
C8_Witness ==
    /\ gameOver
    /\ lastOp = Op("click", "gameOver", 0)

\* C9: resetGame, from the restart button, the play-again button or the R key,
\* yields the session of a freshly initialised game
C9_ResetIsFresh ==
    [][\/ /\ edges' = {}
          /\ boxes' = EmptyMap
          /\ \A p \in PlayerIdx : scores'[p] = 0
          /\ currentPlayer' = 0
          /\ gameOver' = FALSE
          /\ session' = FreshSession
       \/ ~(RestartButton \/ PlayAgainButton \/ KeyDown("r") \/ KeyDown("R"))
      ]_vars

\* C9 witness: the play-again button has just reset a finished game
C9_Witness ==
    /\ lastOp = Op("resetGame", "play-again", 0)
    /\ winnerText # <<>>
    /\ session = FreshSession

\* C10: the scores sum to the number of entries of state.boxes, and each
\* player's score is the number of cells whose recorded owner is that player
C10_ScoresCountBoxes ==
    /\ SumScores(PlayerIdx) = Cardinality(DOMAIN boxes)
    /\ \A p \in PlayerIdx : scores[p] = Cardinality({b \in DOMAIN boxes : boxes[b] = p})

\* C10 witness: two cells are owned, by different players
C10_Witness ==
    /\ Cardinality(DOMAIN boxes) = 2
    /\ \E b1 \in DOMAIN boxes, b2 \in DOMAIN boxes : boxes[b1] # boxes[b2]
    /\ scores[0] = 1 /\ scores[1] = 1

\* the legal edges of the grid in canonical form: both endpoints in bounds,
\* adjacent, the smaller endpoint first
LegalEdges ==
    {<<r, c, r, c + 1>> : r \in 0 .. (config.rows - 1), c \in 0 .. (config.cols - 2)}
    \cup
    {<<r, c, r + 1, c>> : r \in 0 .. (config.rows - 2), c \in 0 .. (config.cols - 1)}

InBounds(r, c) == r >= 0 /\ r < config.rows /\ c >= 0 /\ c < config.cols

Canonical(k) ==
    /\ InBounds(k[1], k[2]) /\ InBounds(k[3], k[4])
    /\ \/ k[1] = k[3] /\ k[4] = k[2] + 1
       \/ k[2] = k[4] /\ k[3] = k[1] + 1

\* this step is a resetGame
ResetStep == RestartButton \/ PlayAgainButton \/ KeyDown("r") \/ KeyDown("R")

RECURSIVE SumOf(_, _)
SumOf(sc, ps) ==
    IF ps = {} THEN 0
    ELSE LET p == CHOOSE q \in ps : TRUE IN sc[p] + SumOf(sc, ps \ {p})

\* C11: the drawn edges are legal edges of the grid in canonical form; a step
\* that changes the set either adds exactly one new edge (an accepted move) or
\* is a resetGame that empties it; no other step removes an edge
C11_EdgesLegalAndGrowing ==
    [][/\ \A k \in edges' : Canonical(k) /\ k \in LegalEdges
       /\ \/ edges' = edges
          \/ AcceptedMove /\ lastOp'.op = "click" /\ lastOp'.outcome = "accepted"
          \/ edges' = {} /\ ResetStep
      ]_vars

\* C11 witness: accepted moves have drawn a horizontal and a vertical edge, the
\* latest on the last dot column
C11_Witness ==
    /\ lastOp.outcome = "accepted"
    /\ \E k \in edges : k[1] = k[3]
    /\ \E k \in edges : k[2] = k[4] /\ k[2] = config.cols - 1
    /\ Cardinality(edges) = 3

\* C12: an owned cell keeps its owner in every step that is not a resetGame, and
\* an accepted move scores exactly the cells that it newly records
C12_OwnerIsPermanent ==
    [][/\ \/ \A b \in DOMAIN boxes : b \in DOMAIN boxes' /\ boxes'[b] = boxes[b]
          \/ boxes' = EmptyMap /\ ResetStep
       /\ \/ ~AcceptedMove
          \/ SumOf(scores', PlayerIdx) - SumOf(scores, PlayerIdx)
                = Cardinality((DOMAIN boxes') \ (DOMAIN boxes))
      ]_vars

\* C12 witness: one cell is owned and a later move, which completed nothing,
\* has passed the turn to the other player: the owner is still recorded
C12_Witness ==
    /\ Cardinality(DOMAIN boxes) = 1
    /\ lastOp = Op("click", "accepted", 0)
    /\ \E b \in DOMAIN boxes : boxes[b] # currentPlayer

\* the edge keys that pointer positions (x, y), x in xs and y in ys, resolve to
ResolvedKeys(xs, ys) ==
    {KeyOf(FindNearestEdge(x, y, boardOffset, config)) : x \in xs, y \in ys}
        \ {KeyOf(null)}

\* C13: the number of distinct edges that a click can resolve to, M*(N-1)
\* horizontal ones plus (M-1)*N vertical ones, equals the totalPossibleEdges of
\* isGameOver; on the untouched board this is counted over every pixel of the
\* canvas, elsewhere over the sampled pointer positions
C13_ClickableEdgeCount ==
    LET sampled == ResolvedKeys(PointerXs, PointerYs)
    IN  /\ Cardinality({k \in sampled : k[1] = k[3]}) = config.rows * (config.cols - 1)
        /\ Cardinality({k \in sampled : k[2] = k[4]}) = (config.rows - 1) * config.cols
        /\ Cardinality(sampled) = TotalPossibleEdges(config)
        /\ (lastOp.op = "initGame" /\ highlightedEdge = null) =>
              Cardinality(ResolvedKeys(0 .. (canvasSize.width - 1),
                                       0 .. (canvasSize.height - 1)))
                  = TotalPossibleEdges(config)

\* C13 witness: on the 2 x 3 grid clicks have drawn every edge a click can
\* resolve to, 7 in all
C13_Witness ==
    /\ config = [rows |-> 2, cols |-> 3]
    /\ edges = ResolvedKeys(PointerXs, PointerYs)
    /\ Cardinality(edges) = 7

\* the number of cells recorded for player p
Owned(p) == Cardinality({b \in DOMAIN boxes : boxes[b] = p})

\* C14: on the 2 x 2 grid, whatever the order of the 4 edges: with 3 edges drawn
\* no cell is owned and the game is not over; with 4 edges drawn the one cell is
\* owned by the player who drew the 4th edge (the player whose turn came after 3
\* moves that completed nothing), the game is over and that player is reported
\* as sole winner with 1 point, every other player having 0
C14_SingleCellGame ==
    config = [rows |-> 2, cols |-> 2] =>
        /\ Cardinality(edges) = 3 => (DOMAIN boxes = {} /\ ~gameOver)
        /\ Cardinality(edges) = 4 =>
              /\ DOMAIN boxes = {<<0, 0>>}
              /\ boxes[<<0, 0>>] = 3 % NumPlayers
              /\ currentPlayer = 3 % NumPlayers
              /\ gameOver
              /\ winnerText =
                    <<"Player", players[(3 % NumPlayers) + 1], "wins with", 1, "points!">>
              /\ \A p \in PlayerIdx : scores[p] = IF p = 3 % NumPlayers THEN 1 ELSE 0

\* C14 witness: the 2 x 2 game has ended, the bottom edge drawn last, with
\* player B the sole winner, 1 to 0
C14_Witness ==
    /\ config = [rows |-> 2, cols |-> 2]
    /\ gameOver
    /\ rendered.edges = {<<0, 0, 0, 1>>, <<0, 0, 1, 0>>, <<0, 1, 1, 1>>}
    /\ winnerText = <<"Player", "B", "wins with", 1, "points!">>
    /\ scores[0] = 0 /\ scores[1] = 1

\* C15: on the 2 x 3 grid with two players, a finished game in which each
\* player owns exactly one cell is reported as a tie, both scores being 1
C15_OneCellEachIsTie ==
    (/\ config = [rows |-> 2, cols |-> 3]
     /\ NumPlayers = 2
     /\ gameOver
     /\ Owned(0) = 1 /\ Owned(1) = 1) =>
        /\ winnerText = <<"It's a tie!">>
        /\ scores[0] = 1 /\ scores[1] = 1
        /\ TopPlayers = {0, 1} /\ TopScore = 1

\* C15 witness: such a game has been played: the left cell went to player A,
\* the right cell to player B, and the tie is shown
C15_Witness ==
    /\ config = [rows |-> 2, cols |-> 3]
    /\ NumPlayers = 2
    /\ gameOver
    /\ DOMAIN boxes = {<<0, 0>>, <<0, 1>>}
    /\ boxes[<<0, 0>>] = 0 /\ boxes[<<0, 1>>] = 1
    /\ winnerText = <<"It's a tie!">>
    /\ modal = "flex"

\* a configuration with no cell (rows < 2 or cols < 2) or fewer than 2 players
InvalidConfig == config.rows < 2 \/ config.cols < 2 \/ NumPlayers < 2

\* C16: a configuration with rows < 2, cols < 2 or fewer than 2 players is
\* refused: there is no game state built from it, so no state in which the
\* board of such a configuration is on screen and takes moves
C16_InvalidConfigRefused == ~InvalidConfig

\* C17: the session (drawn edges, cell owners, scores, currentPlayer, gameOver)
\* changes only in an accepted click or a resetGame; a mouse move and a window
\* resize leave it unchanged, and a click that resolves to no edge changes
\* nothing of the game at all
C17_OnlyMoveAndResetWrite ==
    [][/\ \/ UNCHANGED session
          \/ AcceptedMove /\ lastOp' = Op("click", "accepted", lastOp'.completed)
          \/ ResetStep
       /\ \/ UNCHANGED session
          \/ ~(Resize \/ \E x \in PointerXs, y \in PointerYs : HandleMouseMove(x, y))
       /\ (lastOp' # lastOp /\ lastOp' = Op("click", "noEdge", 0)) =>
              UNCHANGED <<config, players, currentPlayer, scores, edges, boxes,
                          highlightedEdge, gameOver, canvasSize, boardOffset,
                          rendered, ui, winnerText, modal>>
      ]_vars

\* a click beside every edge, made while an edge is highlighted, in a game with
\* a cell already owned
C17_Witness ==
    /\ lastOp = Op("click", "noEdge", 0)
    /\ highlightedEdge # null
    /\ DOMAIN boxes # {}
    /\ ~gameOver

\* the edge object whose key is k
EdgeOf(k) ==
    [r1 |-> k[1], c1 |-> k[2], r2 |-> k[3], c2 |-> k[4], isHorizontal |-> (k[1] = k[3])]

\* the cell above a horizontal edge, to the left of a vertical one
FirstCell(k) == IF k[1] = k[3] THEN <<k[1] - 1, k[2]>> ELSE <<k[1], k[2] - 1>>

\* the cell below a horizontal edge, to the right of a vertical one
SecondCell(k) == <<k[1], k[2]>>

OnPerimeter(k) ==
    IF k[1] = k[3] THEN k[1] = 0 \/ k[1] = config.rows - 1
                   ELSE k[2] = 0 \/ k[2] = config.cols - 1

\* the complete cells among the two beside edge k, first cell first
CompleteBeside(k, es) ==
    (IF FirstCell(k) \in Cells /\ Complete(FirstCell(k), es) THEN <<FirstCell(k)>> ELSE <<>>)
    \o (IF SecondCell(k) \in Cells /\ Complete(SecondCell(k), es) THEN <<SecondCell(k)>> ELSE <<>>)

\* C18: for every legal edge, drawn into the current edge set,
\* checkForCompletedBoxes returns the complete cells beside it, the cell above
\* (left) before the cell below (right); the list has at most 2 entries, all
\* distinct, and at most 1 for an edge on the perimeter
C18_CompletedListOrder ==
    \A k \in LegalEdges :
        LET list == CheckForCompletedBoxes(EdgeOf(k), edges \cup {k}, config)
        IN  /\ Len(list) <= 2
            /\ \A i, j \in 1 .. Len(list) : i # j => list[i] # list[j]
            /\ OnPerimeter(k) => Len(list) <= 1
            /\ [i \in 1 .. Len(list) |-> BoxKey(list[i])] = CompleteBeside(k, edges \cup {k})

\* the middle edge of a 3 x 2 grid has just closed the cell above and the cell
\* below it, and is listed in that order
C18_Witness ==
    /\ config = [rows |-> 3, cols |-> 2]
    /\ lastOp = Op("click", "accepted", 2)
    /\ <<1, 0, 1, 1>> \in edges
    /\ CheckForCompletedBoxes(EdgeOf(<<1, 0, 1, 1>>), edges, config)
           = <<[r |-> 0, c |-> 0], [r |-> 1, c |-> 0]>>
    /\ Cardinality(edges) = 7

\* C19: once the click handler has returned from an accepted move, the move
\* that ends the game included, the drawn board shows the current edges and
\* cell owners and the score display shows the current scores
C19_RenderedIsCurrent ==
    (lastOp.op = "click" /\ lastOp.outcome = "accepted") =>
        /\ rendered.edges = edges
        /\ rendered.boxes = boxes
        /\ ui.scores = scores

\* C20: in every state with gameOver true every cell of the grid is owned, the
\* scores sum to (rows-1)*(cols-1), and when the announcement names a winner
\* the score it reports is the number of cells that player owns
C20_FinalTally ==
    gameOver =>
        /\ DOMAIN boxes = Cells
        /\ SumOf(scores, PlayerIdx) = (config.rows - 1) * (config.cols - 1)
        /\ Len(winnerText) = 5 =>
              \E p \in PlayerIdx :
                  /\ players[p + 1] = winnerText[2]
                  /\ winnerText[4] = Owned(p)
                  /\ winnerText[4] = scores[p]

\* a finished game on a grid of 2 cells, both owned by the announced winner
C20_Witness ==
    /\ gameOver
    /\ Cardinality(Cells) = 2
    /\ Len(winnerText) = 5
    /\ winnerText[4] = 2
    /\ \E p \in PlayerIdx : Owned(p) = 2 /\ players[p + 1] = winnerText[2]

\* C21: the drawn edges count the moves accepted since the last reset: a step
\* that changes them is an accepted move (one more) or a reset (none); there are
\* never more than (M-1)*N + M*(N-1) of them, and the game is over exactly when
\* that many are drawn. If from some point on no reset occurs and clicks on
\* undrawn edges keep arriving (such a click is possible exactly while an edge
\* is undrawn and the game is not over; handleCanvasClick does not read the
\* hover highlight, so this is compared in the states without one), the game
\* reaches gameOver and stays there
C21_GameEnds ==
    /\ [](/\ Cardinality(edges) <= TotalLegalEdges
          /\ gameOver <=> (Cardinality(edges) = TotalLegalEdges))
    /\ [][\/ edges' = edges
          \/ Cardinality(edges') = Cardinality(edges) + 1
          \/ edges' = {} /\ ResetStep]_vars
    /\ [](highlightedEdge = null =>
             (NoFreeEdge <=> ~(ENABLED <<FreeEdgeClick>>_vars)))
    /\ ([]<><<ResetStep>>_vars) \/ <>[]gameOver

\* the 7th accepted move of a game on the 3 x 2 grid has just ended it
C21_Witness ==
    /\ config = [rows |-> 3, cols |-> 2]
    /\ gameOver
    /\ Cardinality(edges) = 7
    /\ lastOp.op = "click" /\ lastOp.outcome = "accepted"
    /\ modal = "flex"

====
